---- MODULE Spec2Model ----
(***************************************************************************)
(* A model of backend/voting.py: the divisor generators, the round loop of *)
(* constituency_seat_allocation, the two threshold eliminations and the    *)
(* Election object's run() pipeline.                                       *)
(*                                                                         *)
(* Python lists are sequences.  Python indices are 0-based and are kept    *)
(* 0-based wherever the program stores them (a winner idx, the entries of  *)
(* seats); a list xs is read at Python index i as xs[i + 1].               *)
(*                                                                         *)
(* Numbers that the program produces by true division (votes / divisor,    *)
(* float(t) / country_total) and the literal 1.4 are exact rationals       *)
(* <<numerator, denominator>> with a positive denominator.  On the values  *)
(* within the bounds below two such quotients are equal or ordered as      *)
(* IEEE doubles exactly when they are as rationals; the program never      *)
(* divides by 1.4, it only stores it.                                      *)
(***************************************************************************)
EXTENDS Integers, Sequences, FiniteSets, TLC

VARIABLES
    election,   \* the fields of one Election object (self.*)
    pc,         \* where the caller of the Election is: idle, or a stage of run()
    exc,        \* the exception the last call on the Election raised, or "none"
    frame,      \* the local variables of one call of constituency_seat_allocation
    te,         \* a caller applying the threshold eliminations to a matrix
    runs        \* how many times run() has been called on the Election

vars == <<election, pc, exc, frame, te, runs>>

(***************************************************************************)
(* Bounds of the model.                                                    *)
(***************************************************************************)
\* the most contestants in a vote vector handed to constituency_seat_allocation
MaxContestants == 3
\* the most votes of one contestant in such a vector
MaxVotes == 3
\* the most seats asked of constituency_seat_allocation
MaxSeats == 4
\* the most votes in one cell of an Election's votes matrix
MaxCellVotes == 1
\* the most constituency seats of one constituency of an Election
MaxConstSeats == 2
\* the most calls of run() on one Election
MaxRuns == 2
\* the most votes in one cell of a matrix handed to the threshold eliminations
MaxThresholdVotes == 3

(***************************************************************************)
(* Helpers for Python's built-ins.                                         *)
(***************************************************************************)
\* An attribute or result that has not been assigned yet.  It is written as the
\* empty list; every list the program assigns to such a place while a votes
\* matrix with at least one row and one column is in use is non-empty, except
\* the empty m_allocations and order that run() and __init__ assign themselves.
NoAttr == <<>>

RECURSIVE sum(_)
\* sum(xs)
sum(xs) == IF xs = <<>> THEN 0 ELSE Head(xs) + sum(Tail(xs))

\* xs.count(x)
count(xs, x) == Cardinality({j \in 1..Len(xs) : xs[j] = x})

\* range(n) as the set of its values
range(n) == 0..(n - 1)

\* a / b for integers a and b > 0, with b itself possibly a rational <<n, d>>
Quot(a, b) == <<a * b[2], b[1]>>

\* an int as a rational
Int2Q(a) == <<a, 1>>

QLess(a, b) == a[1] * b[2] < b[1] * a[2]
QEq(a, b) == a[1] * b[2] = b[1] * a[2]
QLeq(a, b) == a[1] * b[2] <= b[1] * a[2]

(***************************************************************************)
(* The divisor generators, lines 16-42.  A generator object is a record:   *)
(* which function it runs, the statement it is suspended at ("created"     *)
(* before the first next(), else the line of the yield) and its local n.   *)
(***************************************************************************)
\* the step of dhondt_gen's loop, line 21
dhondt_increment(n) == n + 1

\* sainte_lague_gen stepping by one, as dhondt_gen does
sainte_lague_increment_by_one(n) == n + 1

\* the step of sainte_lague_gen's loop, line 28
sainte_lague_increment(n) == n + 2

\* the step of swedish_sainte_lague_gen's loop, line 36
swedish_increment(n) == n + 2

\* the first value swedish_sainte_lague_gen yields, line 32: 1.4
swedish_first == <<7, 5>>

dhondt_gen == [fn |-> "dhondt", at |-> "created", n |-> 0]
sainte_lague_gen == [fn |-> "sainte-lague", at |-> "created", n |-> 0]
swedish_sainte_lague_gen == [fn |-> "swedish", at |-> "created", n |-> 0]

\* DIVIDER_RULES[method]() : a fresh generator object of the method
DIVIDER_RULES ==
    ("dhondt" :> dhondt_gen) @@
    ("sainte-lague" :> sainte_lague_gen) @@
    ("swedish" :> swedish_sainte_lague_gen)

\* the keys of DIVIDER_RULES
DividerNames == DOMAIN DIVIDER_RULES

\* next(g): the value the generator yields and the generator as it is suspended
\* afterwards.  Every function loops forever, so there is no StopIteration.
next(g) ==
    CASE g.fn = "dhondt" ->
           LET n == IF g.at = "created" THEN 1 ELSE dhondt_increment(g.n)
           IN  [value |-> Int2Q(n), gen |-> [g EXCEPT !.at = "line 20", !.n = n]]
      [] g.fn = "sainte-lague" ->
           LET n == IF g.at = "created" THEN 1 ELSE sainte_lague_increment(g.n)
           IN  [value |-> Int2Q(n), gen |-> [g EXCEPT !.at = "line 27", !.n = n]]
      [] g.fn = "swedish" ->
           IF g.at = "created"
           THEN [value |-> swedish_first, gen |-> [g EXCEPT !.at = "line 32"]]
           ELSE LET n == IF g.at = "line 32" THEN 3 ELSE swedish_increment(g.n)
                IN  [value |-> Int2Q(n),
                     gen |-> [g EXCEPT !.at = "line 35", !.n = n]]

(***************************************************************************)
(* constituency_seat_allocation, lines 252-275.  A frame holds the call's  *)
(* arguments and locals; pc is "call" (arguments bound), "loop" (at the    *)
(* head of the for loop, i iterations done), "return" or "raise".          *)
(***************************************************************************)
\* min(xs) in the place of max(xs)
min_for_max(xs) == xs[CHOOSE j \in 1..Len(xs) :
                 /\ \A k \in 1..Len(xs) : QLeq(xs[j], xs[k])
                 /\ \A k \in 1..(j - 1) : QLess(xs[j], xs[k])]

\* max(xs) of a non-empty list of numbers: Python returns the first maximal item
max(xs) == xs[CHOOSE j \in 1..Len(xs) :
                 /\ \A k \in 1..Len(xs) : QLeq(xs[k], xs[j])
                 /\ \A k \in 1..(j - 1) : QLess(xs[k], xs[j])]

\* the last Python index holding a value equal to x, in the place of the first
last_index(xs, x) ==
    (CHOOSE j \in 1..Len(xs) :
        /\ QEq(xs[j], x)
        /\ \A k \in (j + 1)..Len(xs) : ~QEq(xs[k], x)) - 1

\* xs.index(x): the first Python index holding a value equal to x
index(xs, x) ==
    (CHOOSE j \in 1..Len(xs) :
        /\ QEq(xs[j], x)
        /\ \A k \in 1..(j - 1) : ~QEq(xs[k], x)) - 1

\* the frame of a call with these arguments, before its first statement
CSACall(v_votes, num_seats, gen) ==
    [pc |-> "call", exc |-> "none",
     v_votes |-> v_votes, num_seats |-> num_seats, gen |-> gen,
     rounds |-> <<>>, seats |-> <<>>, alloc_votes |-> <<>>,
     gens |-> <<>>, divisors |-> <<>>, i |-> 0]

\* lines 255-259: the locals before the loop
CSAStart(f) ==
    LET fresh == [k \in 1..Len(f.v_votes) |-> DIVIDER_RULES[f.gen]]
    IN  [f EXCEPT !.pc = "loop",
                  !.rounds = <<>>,
                  !.seats = <<>>,
                  !.alloc_votes = [k \in 1..Len(f.v_votes) |-> Int2Q(f.v_votes[k])],
                  !.gens = [k \in 1..Len(f.v_votes) |-> next(fresh[k]).gen],
                  !.divisors = [k \in 1..Len(f.v_votes) |-> next(fresh[k]).value],
                  !.i = 0]

\* lines 262-273: one iteration of the loop.  The "votes" entry of res is the
\* list alloc_votes itself, not a copy, so it is always equal to f.alloc_votes
\* and is not stored a second time.
CSARound(f) ==
    IF f.alloc_votes = <<>>
    THEN [f EXCEPT !.pc = "raise", !.exc = "ValueError"]
    ELSE LET maxval == max(f.alloc_votes)
             idx == index(f.alloc_votes, maxval)
             res == [maxval |-> maxval, winner |-> idx,
                     divisor |-> f.divisors[idx + 1]]
             nx == next(f.gens[idx + 1])
         IN  [f EXCEPT !.seats = Append(@, idx),
                       !.rounds = Append(@, res),
                       !.gens[idx + 1] = nx.gen,
                       !.divisors[idx + 1] = nx.value,
                       !.alloc_votes[idx + 1] = Quot(f.v_votes[idx + 1], nx.value),
                       !.i = @ + 1]

\* line 261 with the range exhausted, and line 275
CSAReturn(f) == [f EXCEPT !.pc = "return"]

RECURSIVE CSALoop(_)
\* the loop run to its end
CSALoop(f) ==
    IF f.pc # "loop" THEN f
    ELSE IF f.i < f.num_seats THEN CSALoop(CSARound(f))
    ELSE CSAReturn(f)

\* the whole call: the frame it ends in (pc "return": rounds and seats are the
\* values returned; pc "raise": exc is the exception)
constituency_seat_allocation(v_votes, num_seats, gen) ==
    CSALoop(CSAStart(CSACall(v_votes, num_seats, gen)))

\* no call of constituency_seat_allocation in progress
NoFrame == CSACall(<<>>, 0, "dhondt")

(***************************************************************************)
(* Values of the variables a specification does not use.                   *)
(***************************************************************************)
\* no Election constructed
NoElection == [m_votes |-> NoAttr]

\* no threshold elimination asked for
NoThreshold == [votes |-> NoAttr]

(***************************************************************************)
(* SpecAlloc: one call of constituency_seat_allocation, statement by       *)
(* statement, on every vote vector, seat count and divider within bounds.  *)
(***************************************************************************)
\* the example of the documentation: votes 100, 80, 20
ExampleVotes == <<100, 80, 20>>

VoteVectors ==
    UNION {[1..n -> 0..MaxVotes] : n \in 0..MaxContestants} \cup {ExampleVotes}

InitAlloc ==
    /\ election = NoElection
    /\ pc = "none"
    /\ exc = "none"
    /\ runs = 0
    /\ te = NoThreshold
    /\ frame \in {CSACall(v, n, g) :
                    v \in VoteVectors, n \in 0..MaxSeats, g \in DividerNames}

\* lines 255-259
AllocStart ==
    /\ frame.pc = "call"
    /\ frame' = CSAStart(frame)
    /\ UNCHANGED <<election, pc, exc, te, runs>>

\* lines 261-273, one iteration
AllocRound ==
    /\ frame.pc = "loop"
    /\ frame.i < frame.num_seats
    /\ frame' = CSARound(frame)
    /\ UNCHANGED <<election, pc, exc, te, runs>>

\* line 275
AllocReturn ==
    /\ frame.pc = "loop"
    /\ frame.i = frame.num_seats
    /\ frame' = CSAReturn(frame)
    /\ UNCHANGED <<election, pc, exc, te, runs>>

\* the caller calls the function again with the same arguments
AllocCallAgain ==
    /\ frame.pc \in {"return", "raise"}
    /\ frame' = CSACall(frame.v_votes, frame.num_seats, frame.gen)
    /\ UNCHANGED <<election, pc, exc, te, runs>>

NextAlloc == AllocStart \/ AllocRound \/ AllocReturn \/ AllocCallAgain

SpecAlloc == InitAlloc /\ [][NextAlloc]_vars

(***************************************************************************)
(* Claims about constituency_seat_allocation and the generators, checked   *)
(* under SpecAlloc.                                                        *)
(***************************************************************************)
\* the sequences the generators' docstrings give (lines 17, 24, 31), as a
\* function of the position p = 1, 2, 3, ... in the sequence
DocumentedTerm(method, p) ==
    CASE method = "dhondt" -> Int2Q(p)
      [] method = "sainte-lague" -> Int2Q(2 * p - 1)
      [] method = "swedish" -> IF p = 1 THEN <<7, 5>> ELSE Int2Q(2 * p - 1)

\* the contestants of the call in progress, as positions of its lists
Contestants == 1..Len(frame.v_votes)

\* the seats the contestant at list position k has won so far
SeatsWon(f, k) == count(f.seats, k - 1)

\* one iteration of the loop has just run
RoundStep ==
    /\ frame.pc = "loop"
    /\ frame'.pc = "loop"
    /\ frame'.i = frame.i + 1

\* C2: a contestant with zero votes is never awarded a seat, so with no votes
\* at all the loop ends with nobody seated.
C2_ZeroVotesNeverWin ==
    frame.pc \in {"loop", "return"} =>
        \A j \in 1..Len(frame.seats) : frame.v_votes[frame.seats[j] + 1] > 0

\* C5: at the return, giving any one contestant more votes (everything else
\* as it was) would not have given that contestant fewer seats.
C5_MonotonicInVotes ==
    frame.pc = "return" =>
        \A k \in Contestants :
            \A more \in 1..(MaxVotes - frame.v_votes[k]) :
                LET votes2 == [frame.v_votes EXCEPT ![k] = @ + more]
                    f2 == constituency_seat_allocation(votes2, frame.num_seats,
                                                       frame.gen)
                IN  /\ f2.pc = "return"
                    /\ SeatsWon(f2, k) >= SeatsWon(frame, k)

\* C5's case: a contestant that more votes would give strictly more seats
C5_Witness ==
    /\ frame.pc = "return"
    /\ frame.num_seats > 1
    /\ \E k \in Contestants :
         \E more \in 1..(MaxVotes - frame.v_votes[k]) :
            SeatsWon(constituency_seat_allocation(
                         [frame.v_votes EXCEPT ![k] = @ + more],
                         frame.num_seats, frame.gen), k) > SeatsWon(frame, k)

\* the lowest list position among those holding the largest quotient
FirstOfTheLargest(f, w) ==
    /\ \A k \in 1..Len(f.alloc_votes) : QLeq(f.alloc_votes[k], f.alloc_votes[w])
    /\ \A k \in 1..(w - 1) : QLess(f.alloc_votes[k], f.alloc_votes[w])

\* the seats per contestant a finished call has awarded
Allocation(f) == [k \in 1..Len(f.v_votes) |-> SeatsWon(f, k)]

\* C7, the rounds: the seat of a round goes to the lowest-index contestant
\* among those with the largest quotient, and the round changes the generator,
\* divisor and quotient of that contestant only.
C7_RoundRule ==
    RoundStep =>
        LET w == frame'.seats[Len(frame'.seats)] + 1
        IN  /\ frame'.seats = Append(frame.seats, w - 1)
            /\ w \in Contestants
            /\ FirstOfTheLargest(frame, w)
            /\ frame'.gens[w] # frame.gens[w]
            /\ \A k \in Contestants \ {w} :
                  /\ frame'.gens[k] = frame.gens[k]
                  /\ frame'.divisors[k] = frame.divisors[k]
                  /\ frame'.alloc_votes[k] = frame.alloc_votes[k]

\* C7, the example: votes 100, 80, 20 and 4 seats under d'Hondt give 2, 2, 0
C7_Example ==
    (/\ frame.pc = "return"
     /\ frame.v_votes = ExampleVotes
     /\ frame.num_seats = 4
     /\ frame.gen = "dhondt") => Allocation(frame) = <<2, 2, 0>>

\* C7: every round seats the first contestant among those with the largest
\* quotient and touches that contestant's generator, divisor and quotient
\* only; the documented example comes out as 2, 2, 0.
C7_FirstMaximumWins == [][C7_RoundRule]_vars /\ []C7_Example

\* C7's case: the call has returned after a round in which two contestants
\* with votes were level and the first of them was seated
C7_Witness ==
    /\ frame.pc = "return"
    /\ Len(frame.v_votes) >= 2
    /\ frame.v_votes[1] = frame.v_votes[2]
    /\ frame.v_votes[1] > 0
    /\ frame.num_seats >= 2
    /\ frame.seats[1] = 0
    /\ frame.seats[2] = 1

\* C9, the terms: the divisor a contestant holds is the documented term at the
\* position its generator has been advanced to (one next() at the start and
\* one per seat won), whatever the other generators did; so a fresh generator
\* holds the first term, and no generator has ended.
C9_DocumentedTerms ==
    frame.pc \in {"loop", "return"} =>
        \A k \in Contestants :
            /\ frame.divisors[k] = DocumentedTerm(frame.gen, SeatsWon(frame, k) + 1)
            /\ frame.gens[k].at # "created"
            /\ frame.gens[k].fn = frame.gen

\* C9, the steps: a round advances exactly one generator, to a strictly
\* larger term.
C9_Advance ==
    RoundStep =>
        \E w \in Contestants :
            /\ frame'.gens[w] # frame.gens[w]
            /\ QLess(frame.divisors[w], frame'.divisors[w])
            /\ \A k \in Contestants \ {w} :
                  /\ frame'.gens[k] = frame.gens[k]
                  /\ frame'.divisors[k] = frame.divisors[k]

\* C9: each generator yields its documented sequence, strictly increasing and
\* without end, a fresh generator starts at the first term, and advancing one
\* contestant's generator leaves the others where they are.
C9_DivisorSequences == []C9_DocumentedTerms /\ [][C9_Advance]_vars

\* C9's case: under the Nordic variant one contestant's generator has been
\* advanced twice past its first term while another's is still at the first
C9_Witness ==
    /\ frame.pc = "return"
    /\ frame.gen = "swedish"
    /\ \E j, k \in Contestants :
          /\ SeatsWon(frame, j) >= 2
          /\ SeatsWon(frame, k) = 0
          /\ frame.divisors[j] = <<5, 1>>
          /\ frame.divisors[k] = <<7, 5>>

\* C10: at the start of every round each contestant's quotient is its votes
\* divided by the documented term at position (seats won so far + 1).
C10_QuotientUsesNextTerm ==
    (frame.pc = "loop" /\ frame.i < frame.num_seats) =>
        \A k \in Contestants :
            QEq(frame.alloc_votes[k],
                Quot(frame.v_votes[k],
                     DocumentedTerm(frame.gen, SeatsWon(frame, k) + 1)))

(***************************************************************************)
(* The threshold eliminations, lines 278-328.  A call ends in a record:    *)
(* exc is "none" and value the list returned, or exc is the exception.     *)
(***************************************************************************)
\* Python's None, the default of party_seats and priors.  The function only
\* tests these arguments for truth, where None and the empty list are alike.
None == <<>>

\* bool(x) of None or a list
truthy(x) == x # <<>>

Return(value) == [exc |-> "none", value |-> value]
Raise(e) == [exc |-> e, value |-> None]

\* percent >= threshold in the place of percent > threshold
passes_at_threshold(percent, threshold) == QLeq(threshold, percent)

\* percent < threshold in the place of percent > threshold
passes_below_threshold(percent, threshold) == QLess(percent, threshold)

\* percent[i] > threshold, lines 300 and 326
passes(percent, threshold) == QLess(threshold, percent)

\* totals = [sum([x[i] for x in votes]) for i in range(N)], lines 292 and 323
column_totals(votes, N) ==
    [i \in 1..N |-> sum([r \in 1..Len(votes) |-> votes[r][i]])]

\* what lines 291-294 and 322-325 raise, or "none"
share_error(votes) ==
    IF votes = <<>> THEN "IndexError"
    ELSE LET N == Len(votes[1])
         IN  IF \E r \in 1..Len(votes) : Len(votes[r]) < N THEN "IndexError"
             ELSE IF N > 0 /\ sum(column_totals(votes, N)) = 0
                  THEN "ZeroDivisionError"
                  ELSE "none"

\* percent = [float(t)/country_total for t in totals], lines 294 and 325
percent_of(votes) ==
    LET N == Len(votes[1])
        totals == column_totals(votes, N)
        country_total == sum(totals)
    IN  [i \in 1..N |-> <<totals[i], country_total>>]

\* lines 278-315
threshold_elimination_constituencies(votes, threshold, party_seats, priors) ==
    IF share_error(votes) # "none" THEN Raise(share_error(votes))
    ELSE LET N == Len(votes[1])
             percent == percent_of(votes)
             m_votes == [r \in 1..Len(votes) |->
                            [i \in 1..N |->
                                IF passes(percent[i], threshold)
                                THEN votes[r][i] ELSE 0]]
         IN  IF ~(truthy(priors) /\ truthy(party_seats))
             THEN Return(m_votes)
             ELSE Return([r \in 1..Len(votes) |->
                            [j \in 1..N |->
                                IF party_seats[j] =
                                     sum([m \in 1..Len(priors) |-> priors[m][j]])
                                THEN 0 ELSE m_votes[r][j]]])

\* lines 317-328
threshold_elimination_totals(votes, threshold) ==
    IF share_error(votes) # "none" THEN Raise(share_error(votes))
    ELSE LET N == Len(votes[1])
             totals == column_totals(votes, N)
             percent == percent_of(votes)
         IN  Return([i \in 1..Len(totals) |->
                        IF passes(percent[i], threshold) THEN totals[i] ELSE 0])

(***************************************************************************)
(* SpecThreshold: a caller that hands a matrix to the two eliminations and *)
(* hands the matrix threshold_elimination_constituencies returned to it    *)
(* again.  te.votes is the argument of the latest call, te.out what        *)
(* threshold_elimination_constituencies returned, te.totals what           *)
(* threshold_elimination_totals returned, te.applied the calls of          *)
(* threshold_elimination_constituencies made.                              *)
(***************************************************************************)
\* the example of the documentation: national totals 500, 300, 200
ExampleTotals == <<<<500, 300, 200>>>>

\* rows and columns of the matrices tried
ThresholdShapes == {<<1, 2>>, <<2, 2>>, <<1, 3>>}

ThresholdMatrices ==
    UNION {[1..sh[1] -> [1..sh[2] -> 0..MaxThresholdVotes]] : sh \in ThresholdShapes}
        \cup {ExampleTotals}

\* thresholds within [0.0, 1.0] (line 63): 0, the default 0.05 (line 73),
\* 0.25, 0.5 and 1
Thresholds == {<<0, 1>>, <<1, 20>>, <<1, 4>>, <<1, 2>>, <<1, 1>>}

InitThreshold ==
    /\ election = NoElection
    /\ pc = "none"
    /\ exc = "none"
    /\ runs = 0
    /\ frame = NoFrame
    /\ te \in {[votes |-> m, threshold |-> t, party_seats |-> None,
                priors |-> None, out |-> NoAttr, totals |-> NoAttr,
                applied |-> 0, exc |-> "none"] :
                  m \in ThresholdMatrices, t \in Thresholds}

\* the result of a call of threshold_elimination_constituencies on te.votes
TEConstituencies(votes, party_seats, priors) ==
    LET r == threshold_elimination_constituencies(votes, te.threshold,
                                                  party_seats, priors)
    IN  te' = [te EXCEPT !.votes = votes,
                         !.party_seats = party_seats,
                         !.priors = priors,
                         !.out = IF r.exc = "none" THEN r.value ELSE NoAttr,
                         !.totals = NoAttr,
                         !.applied = @ + 1,
                         !.exc = r.exc]

\* threshold_elimination_constituencies(votes, threshold)
ThresholdConstituencies ==
    /\ te.applied = 0
    /\ te.exc = "none"
    /\ TEConstituencies(te.votes, None, None)
    /\ UNCHANGED <<election, pc, exc, frame, runs>>

\* threshold_elimination_constituencies(votes, threshold, party_seats, priors)
\* with one prior seat per party and constituency, and every party due the
\* same number of seats
ThresholdConstituenciesPriors ==
    /\ te.applied = 0
    /\ te.exc = "none"
    /\ \E due \in 1..2 :
          TEConstituencies(te.votes, [j \in 1..Len(te.votes[1]) |-> due],
                           [r \in 1..Len(te.votes) |->
                               [j \in 1..Len(te.votes[1]) |-> 1]])
    /\ UNCHANGED <<election, pc, exc, frame, runs>>

\* threshold_elimination_constituencies(out, threshold), out being what the
\* first call returned
ThresholdAgain ==
    /\ te.applied = 1
    /\ te.exc = "none"
    /\ te.priors = None
    /\ TEConstituencies(te.out, None, None)
    /\ UNCHANGED <<election, pc, exc, frame, runs>>

\* threshold_elimination_totals(votes, threshold)
ThresholdTotals ==
    /\ te.exc = "none"
    /\ te.totals = NoAttr
    /\ LET r == threshold_elimination_totals(te.votes, te.threshold)
       IN  te' = [te EXCEPT !.totals = IF r.exc = "none" THEN r.value ELSE NoAttr,
                            !.exc = r.exc]
    /\ UNCHANGED <<election, pc, exc, frame, runs>>

NextThreshold ==
    \/ ThresholdConstituencies
    \/ ThresholdConstituenciesPriors
    \/ ThresholdAgain
    \/ ThresholdTotals

SpecThreshold == InitThreshold /\ [][NextThreshold]_vars

(***************************************************************************)
(* Claims about the threshold eliminations, checked under SpecThreshold.   *)
(***************************************************************************)
\* the party at list position i has more than the threshold's share of all
\* the votes of the matrix
AboveThreshold(votes, threshold, i) ==
    LET mine == sum([r \in 1..Len(votes) |-> votes[r][i]])
        all == sum([r \in 1..Len(votes) |-> sum(votes[r])])
    IN  mine * threshold[2] > threshold[1] * all

\* C3, totals: a party keeps its national total iff its share is strictly
\* above the threshold, else its total is 0.
C3_Totals ==
    te.totals # NoAttr =>
        /\ Len(te.totals) = Len(te.votes[1])
        /\ \A i \in 1..Len(te.totals) :
              te.totals[i] =
                 IF AboveThreshold(te.votes, te.threshold, i)
                 THEN sum([r \in 1..Len(te.votes) |-> te.votes[r][i]])
                 ELSE 0

\* C3, constituencies: without priors a party keeps every cell iff its
\* national share is strictly above the threshold, else every cell is 0.
C3_Constituencies ==
    (te.out # NoAttr /\ te.priors = None) =>
        /\ Len(te.out) = Len(te.votes)
        /\ \A r \in 1..Len(te.out) :
              /\ Len(te.out[r]) = Len(te.votes[1])
              /\ \A i \in 1..Len(te.out[r]) :
                    te.out[r][i] =
                       IF AboveThreshold(te.votes, te.threshold, i)
                       THEN te.votes[r][i]
                       ELSE 0

\* C3, the example: totals 500, 300, 200 at threshold 0.25 give 500, 300, 0
C3_Example ==
    (te.totals # NoAttr /\ te.votes = ExampleTotals /\ te.threshold = <<1, 4>>)
        => te.totals = <<500, 300, 0>>

C4_Idempotent ==
    te.applied = 2 => (te.exc = "none" /\ te.out = te.votes)

\* C4 as amended: the second application returns the first's result again
\* when that result still holds a vote, and raises ZeroDivisionError when
\* the first application eliminated every party.
C4_IdempotentUnlessAllEliminated ==
    te.applied = 2 =>
        IF \E r \in 1..Len(te.votes) : sum(te.votes[r]) > 0
        THEN te.exc = "none" /\ te.out = te.votes
        ELSE te.exc = "ZeroDivisionError"

\* C4's case: a second application that returned after the first application
\* had eliminated some party with votes but not all
C4_Witness ==
    /\ te.applied = 2
    /\ te.exc = "none"
    /\ te.out = te.votes
    /\ te.threshold[1] > 0
    /\ \E i, j \in 1..Len(te.votes[1]) :
          /\ \A r \in 1..Len(te.votes) : te.votes[r][i] = 0
          /\ \E r \in 1..Len(te.votes) : te.votes[r][j] > 0

(***************************************************************************)
(* The Election object, lines 105-233.  election holds the attributes of   *)
(* self that this file assigns; v_adjustment_seats and results are         *)
(* assigned from apportion1d and the ADJUSTMENT_METHODS, which other files *)
(* define, and are left out.                                               *)
(***************************************************************************)
\* rules["parties"] and rules["constituency_names"] of the elections tried
parties == <<"A", "B">>
constituency_names == <<"North", "South">>

NumParties == Len(parties)
NumConst == Len(constituency_names)

\* the rule sets tried: rules["constituencies"] has one entry per name
RuleSets ==
    {[parties |-> parties,
      constituency_names |-> constituency_names,
      constituencies |-> constituency_names,
      constituency_seats |-> cs,
      constituency_adjustment_seats |-> [c \in 1..NumConst |-> adj],
      primary_divider |-> d,
      adjustment_threshold |-> <<1, 20>>] :
        cs \in [1..NumConst -> 0..MaxConstSeats], adj \in 0..1, d \in DividerNames}

\* the dimensions the rules ask of a votes matrix, lines 114-116
DimsOK(votes, rules) ==
    /\ Len(votes) = Len(rules.constituencies)
    /\ \A r \in 1..Len(votes) : Len(votes[r]) = Len(rules.parties)

\* the matrices with the dimensions of the rules
ValidVotes == [1..NumConst -> [1..NumParties -> 0..MaxCellVotes]]

\* matrices with a row or a column too few or too many, or one row too long
\* or too short
Mismatched(v) ==
    {SubSeq(v, 1, Len(v) - 1),
     Append(v, v[1]),
     [r \in 1..Len(v) |-> SubSeq(v[r], 1, Len(v[r]) - 1)],
     [r \in 1..Len(v) |-> Append(v[r], v[r][1])],
     [v EXCEPT ![Len(v)] = Append(@, v[1][1])],
     [v EXCEPT ![Len(v)] = SubSeq(@, 1, Len(@) - 1)]}

VotesInputs == ValidVotes \cup UNION {Mismatched(v) : v \in ValidVotes}

\* ElectionRules.get_generator, lines 96-102: the generator function, named
\* by its key in DIVIDER_RULES
get_generator(rules, div) ==
    IF rules[div] \in DividerNames
    THEN [exc |-> "none", value |-> rules[div]]
    ELSE [exc |-> "ValueError", value |-> None]

\* the seats of constituency i with its adjustment seats added
num_seats_with_adjustment(rules, i) ==
    rules.constituency_seats[i + 1] + rules.constituency_adjustment_seats[i + 1]

\* num_seats = const[i], line 221
primary_num_seats(rules, i) == rules.constituency_seats[i + 1]

RECURSIVE PrimaryLoop(_, _, _, _, _)
\* lines 220-226 from iteration i on: the m_allocations list and self.order
\* at the end of the loop, or at the exception that ends it
PrimaryLoop(m_votes, rules, i, m_allocations, order) ==
    IF i >= Len(rules.constituency_seats)
    THEN [exc |-> "none", m_allocations |-> m_allocations, order |-> order]
    ELSE IF i >= Len(m_votes)
    THEN [exc |-> "IndexError", m_allocations |-> m_allocations, order |-> order]
    ELSE LET f == constituency_seat_allocation(
                      m_votes[i + 1], primary_num_seats(rules, i),
                      get_generator(rules, "primary_divider").value)
         IN  IF f.pc = "raise"
             THEN [exc |-> f.exc, m_allocations |-> m_allocations, order |-> order]
             ELSE PrimaryLoop(m_votes, rules, i + 1,
                      Append(m_allocations,
                             [p \in 1..Len(rules.parties) |-> count(f.seats, p - 1)]),
                      Append(order, f.seats))

\* Election.primary_apportionment, lines 213-233: what it returns and what it
\* has made of self.order
primary_apportionment(m_votes, rules, order) ==
    IF get_generator(rules, "primary_divider").exc # "none"
    THEN [exc |-> "ValueError", m_allocations |-> <<>>, v_seatcount |-> <<>>,
          order |-> order]
    ELSE LET r == PrimaryLoop(m_votes, rules, 0, <<>>, order)
         IN  [exc |-> r.exc,
              m_allocations |-> r.m_allocations,
              v_seatcount |->
                  [p \in 1..Len(rules.parties) |->
                      sum([c \in 1..Len(r.m_allocations) |-> r.m_allocations[c][p]])],
              order |-> r.order]

\* [sum(x) for x in zip(a, b)], lines 141-144
zip_sums(a, b) ==
    [c \in 1..(IF Len(a) < Len(b) THEN Len(a) ELSE Len(b)) |-> a[c] + b[c]]

\* Election.__init__, lines 107-111
NewElection(rules, votes) ==
    [m_votes |-> votes, rules |-> rules, order |-> <<>>, log |-> <<>>,
     m_allocations |-> NoAttr, m_seats |-> NoAttr,
     v_total_seats |-> NoAttr, total_seats |-> NoAttr,
     v_cur_allocations |-> NoAttr,
     v_votes_eliminated |-> NoAttr, m_votes_eliminated |-> NoAttr]

Init ==
    /\ election \in {NewElection(r, v) : r \in RuleSets, v \in VotesInputs}
    /\ pc = "idle"
    /\ exc = "none"
    /\ runs = 0
    /\ frame = NoFrame
    /\ te = NoThreshold

\* what Election.set_votes raises, lines 114-116, or "none".  The second
\* assert indexes votes with its own rows (votes[x] for x in votes), which is a
\* TypeError for every list of lists that has a row.
set_votes_error(votes, rules) ==
    IF Len(votes) # Len(rules.constituencies) THEN "AssertionError"
    ELSE IF votes # <<>> THEN "TypeError"
    ELSE "none"

\* the matrices handed to set_votes: one vote in every cell, with the
\* dimensions of the rules, with a row too few and with a column too many
SetVotesInputs ==
    LET ones == [c \in 1..NumConst |-> [p \in 1..NumParties |-> 1]]
    IN  {ones,
         SubSeq(ones, 1, Len(ones) - 1),
         [r \in 1..Len(ones) |-> Append(ones[r], 1)]}

\* Election.set_votes(votes), lines 113-117
SetVotes ==
    /\ pc = "idle"
    /\ \E votes \in SetVotesInputs :
          /\ exc' = set_votes_error(votes, election.rules)
          /\ election' = IF set_votes_error(votes, election.rules) = "none"
                         THEN [election EXCEPT !.m_votes = votes]
                         ELSE election
    /\ UNCHANGED <<pc, frame, te, runs>>

\* Election.run() up to its first call, lines 137-146
Run ==
    /\ pc = "idle"
    /\ runs < MaxRuns
    /\ runs' = runs + 1
    /\ exc' = "none"
    /\ LET v_total_seats == zip_sums(election.rules.constituency_seats,
                                     election.rules.constituency_adjustment_seats)
       IN  election' = [election EXCEPT !.m_allocations = <<>>,
                                        !.m_seats = <<>>,
                                        !.v_total_seats = v_total_seats,
                                        !.total_seats = sum(v_total_seats)]
    /\ pc' = "run_primary_apportionment"
    /\ UNCHANGED <<frame, te>>

\* Election.run_primary_apportionment, lines 154-160
RunPrimaryApportionment ==
    /\ pc = "run_primary_apportionment"
    /\ LET r == primary_apportionment(election.m_votes, election.rules,
                                      election.order)
       IN  IF r.exc = "none"
           THEN /\ election' = [election EXCEPT !.order = r.order,
                                                !.m_allocations = r.m_allocations,
                                                !.v_cur_allocations = r.v_seatcount]
                /\ pc' = "run_threshold_elimination"
                /\ exc' = "none"
           ELSE /\ election' = [election EXCEPT !.order = r.order]
                /\ pc' = "idle"
                /\ exc' = r.exc
    /\ UNCHANGED <<frame, te, runs>>

\* Election.run_threshold_elimination, lines 162-170
RunThresholdElimination ==
    /\ pc = "run_threshold_elimination"
    /\ LET threshold == election.rules.adjustment_threshold
           v_elim_votes == threshold_elimination_totals(election.m_votes, threshold)
           m_elim_votes == threshold_elimination_constituencies(
                               election.m_votes, threshold, None, None)
       IN  IF v_elim_votes.exc # "none"
           THEN /\ exc' = v_elim_votes.exc
                /\ pc' = "idle"
                /\ UNCHANGED election
           ELSE IF m_elim_votes.exc # "none"
           THEN /\ exc' = m_elim_votes.exc
                /\ pc' = "idle"
                /\ UNCHANGED election
           ELSE /\ election' = [election EXCEPT
                                    !.v_votes_eliminated = v_elim_votes.value,
                                    !.m_votes_eliminated = m_elim_votes.value]
                /\ pc' = "run_determine_adjustment_seats"
                /\ exc' = "none"
    /\ UNCHANGED <<frame, te, runs>>

\* Election.run_determine_adjustment_seats, lines 172-183: it hands
\* v_votes_eliminated and v_cur_allocations to apportion1d and assigns
\* v_adjustment_seats only
RunDetermineAdjustmentSeats ==
    /\ pc = "run_determine_adjustment_seats"
    /\ pc' = "run_adjustment_apportionment"
    /\ UNCHANGED <<election, exc, frame, te, runs>>

\* Election.run_adjustment_apportionment and the return of run(), lines
\* 185-211 and 152: it hands the matrices to the adjustment method and assigns
\* results only
RunAdjustmentApportionment ==
    /\ pc = "run_adjustment_apportionment"
    /\ pc' = "idle"
    /\ UNCHANGED <<election, exc, frame, te, runs>>

Next ==
    \/ SetVotes
    \/ Run
    \/ RunPrimaryApportionment
    \/ RunThresholdElimination
    \/ RunDetermineAdjustmentSeats
    \/ RunAdjustmentApportionment

Spec == Init /\ [][Next]_vars

(***************************************************************************)
(* Claims about the Election, checked under Spec.                          *)
(***************************************************************************)
\* run() has got past run_primary_apportionment at least once
PrimaryDone == runs >= 1 /\ pc # "run_primary_apportionment"

\* the entry of self.order that the latest primary apportionment appended for
\* the constituency at list position c
LatestOrder(c) == election.order[Len(election.order) - NumConst + c]

\* C1: with a votes matrix of the rules' dimensions, once the primary
\* apportionment has run, each row of m_allocations sums to the constituency
\* seats of its constituency, which is within its total seats, and exactly
\* that many seat winners, all of them parties, are recorded for it.
C1_PrimaryRowSums ==
    (DimsOK(election.m_votes, election.rules) /\ PrimaryDone) =>
        /\ exc \notin {"IndexError", "ValueError"}
        /\ Len(election.m_allocations) = NumConst
        /\ Len(election.order) >= NumConst
        /\ \A c \in 1..NumConst :
              /\ Len(election.m_allocations[c]) = NumParties
              /\ sum(election.m_allocations[c]) = election.rules.constituency_seats[c]
              /\ sum(election.m_allocations[c]) <= election.v_total_seats[c]
              /\ Len(LatestOrder(c)) = election.rules.constituency_seats[c]
              /\ \A j \in 1..Len(LatestOrder(c)) : LatestOrder(c)[j] \in range(NumParties)
              /\ \A p \in 1..NumParties :
                    election.m_allocations[c][p] = count(LatestOrder(c), p - 1)

\* C1's case: the primary apportionment has run on a matrix of the rules'
\* dimensions, for constituencies with seats and adjustment seats, and two
\* parties hold seats in one constituency
C1_Witness ==
    /\ DimsOK(election.m_votes, election.rules)
    /\ pc = "run_threshold_elimination"
    /\ election.rules.primary_divider = "swedish"
    /\ election.rules.constituency_adjustment_seats[1] > 0
    /\ election.m_allocations[1] = <<1, 1>>
    /\ election.rules.constituency_seats[2] = 1

\* C6: an Election that holds a votes matrix whose dimensions differ from the
\* rules' completes no stage of run() and produces no allocation.
C6_MismatchRejected ==
    ~DimsOK(election.m_votes, election.rules) =>
        /\ pc \in {"idle", "run_primary_apportionment"}
        /\ election.m_allocations = <<>>
        /\ election.order = <<>>

\* the attributes the pipeline writes, as a first run() leaves them
AfterOneRun ==
    LET r == primary_apportionment(election.m_votes, election.rules, <<>>)
        threshold == election.rules.adjustment_threshold
    IN  [m_allocations |-> r.m_allocations,
         v_cur_allocations |-> r.v_seatcount,
         order |-> r.order,
         v_votes_eliminated |->
             threshold_elimination_totals(election.m_votes, threshold).value,
         m_votes_eliminated |->
             threshold_elimination_constituencies(election.m_votes, threshold,
                                                  None, None).value]

\* C8: whenever run() has returned on a votes matrix of the rules' dimensions,
\* however often it was called before, the attributes the pipeline writes are
\* those a single run() leaves, and order holds one seat sequence per
\* constituency.
C8_RunRebuildsState ==
    (/\ DimsOK(election.m_votes, election.rules)
     /\ pc = "idle"
     /\ runs >= 1
     /\ exc = "none") =>
        /\ Len(election.order) = NumConst
        /\ [m_allocations |-> election.m_allocations,
            v_cur_allocations |-> election.v_cur_allocations,
            order |-> election.order,
            v_votes_eliminated |-> election.v_votes_eliminated,
            m_votes_eliminated |-> election.m_votes_eliminated] = AfterOneRun
====
